---- MODULE Spec2Model ----
(***************************************************************************)
(* GenieClip RST load calculator: the pure calculation helpers             *)
(* (calcBaseAssemblyPsf, calcCloudAvgPsf, calcCombos, firstPassing) and    *)
(* the App component's state and memoised derived values.                  *)
(*                                                                         *)
(* JavaScript numbers are modelled as exact fractions <<n, d>> in lowest   *)
(* terms with d > 0, extended with the three non-finite values of IEEE     *)
(* arithmetic: <<1, 0>> is +Infinity, <<-1, 0>> is -Infinity and <<0, 0>>  *)
(* is NaN.  Spacings (inches) and cloud counts are plain integers.         *)
(***************************************************************************)
EXTENDS Integers, Sequences, FiniteSets, TLC

\* ------------------------------------------------------------------
\* JavaScript number arithmetic
\* ------------------------------------------------------------------
Abs(i) == IF i < 0 THEN -i ELSE i

Sgn(i) == IF i < 0 THEN -1 ELSE IF i > 0 THEN 1 ELSE 0

RECURSIVE GCD(_, _)
GCD(a, b) == IF b = 0 THEN a ELSE GCD(b, a % b)

\* the number n/d (d may be negative or zero), in canonical form
Norm(n, d) ==
  IF d = 0 THEN <<Sgn(n), 0>>
  ELSE LET g == GCD(Abs(n), Abs(d))
           s == IF d < 0 THEN -1 ELSE 1
       IN  <<(s * n) \div g, (s * d) \div g>>

Num(i) == <<i, 1>>

Infinity == <<1, 0>>

NegInfinity == <<-1, 0>>

NaN == <<0, 0>>

Zero == <<0, 1>>

isFinite(x) == x[2] # 0

isNaN(x) == x = NaN

\* x * y
Mul(x, y) == Norm(x[1] * y[1], x[2] * y[2])

\* x / y  (a zero divisor is +0)
Div(x, y) ==
  IF y[1] < 0 THEN Norm(-(x[1] * y[2]), x[2] * (-y[1]))
  ELSE Norm(x[1] * y[2], x[2] * y[1])

\* x + y
Add(x, y) ==
  IF isNaN(x) \/ isNaN(y) THEN NaN
  ELSE IF ~isFinite(x) /\ ~isFinite(y) THEN (IF x = y THEN x ELSE NaN)
  ELSE IF ~isFinite(x) THEN x
  ELSE IF ~isFinite(y) THEN y
  ELSE Norm(x[1] * y[2] + y[1] * x[2], x[2] * y[2])

\* x < y  (false when either side is NaN)
LT(x, y) ==
  IF isNaN(x) \/ isNaN(y) THEN FALSE
  ELSE IF x = y THEN FALSE
  ELSE IF x = NegInfinity \/ y = Infinity THEN TRUE
  ELSE IF x = Infinity \/ y = NegInfinity THEN FALSE
  ELSE x[1] * y[2] < y[1] * x[2]

\* x <= y  (false when either side is NaN)
LE(x, y) == ~isNaN(x) /\ ~isNaN(y) /\ (x = y \/ LT(x, y))

\* x > y
GT(x, y) == LT(y, x)

\* Math.max(x, y)
MathMax(x, y) ==
  IF isNaN(x) \/ isNaN(y) THEN NaN
  ELSE IF LT(x, y) THEN y ELSE x

\* Math.ceil(x)
MathCeil(x) ==
  IF ~isFinite(x) THEN x
  ELSE LET q == x[1] \div x[2]
       IN  IF q * x[2] = x[1] THEN Num(q) ELSE Num(q + 1)

\* ------------------------------------------------------------------
\* Double-precision division and Math.ceil on whole numbers too large for
\* the fractions above.  A non-negative whole number is written in binary,
\* lowest bit first, zero being the empty sequence.
\* ------------------------------------------------------------------
\* significant bits of a double
DoubleBits == 53

\* binary places carried behind the quotient before it is rounded
GuardPlaces == 64

RECURSIVE BitsOf(_)
BitsOf(n) == IF n = 0 THEN <<>> ELSE <<n % 2>> \o BitsOf(n \div 2)

BitsTrim(b) ==
  LET set == {i \in 1..Len(b) : b[i] = 1}
  IN  IF set = {} THEN <<>>
      ELSE SubSeq(b, 1, CHOOSE i \in set : \A j \in set : j <= i)

\* b * 2^s
BitsShl(b, s) == IF b = <<>> THEN <<>> ELSE [i \in 1..s |-> 0] \o b

\* floor(b / 2^s)
BitsShr(b, s) == SubSeq(b, s + 1, Len(b))

\* some of the lowest s bits of b is set
BitsLowSet(b, s) == \E i \in 1..s : i <= Len(b) /\ b[i] = 1

\* bit i of b, zero beyond its length
BitAt(b, i) == IF i <= Len(b) THEN b[i] ELSE 0

\* a + b + c on the bits lo..hi, by halves so that the carry chain nests
\* only logarithmically: the sum bits, then the carry out
RECURSIVE BitsAddCarry(_, _, _, _, _)
BitsAddCarry(a, b, lo, hi, c) ==
  IF hi < lo THEN [s |-> <<>>, c |-> c]
  ELSE IF hi = lo
  THEN LET v == BitAt(a, lo) + BitAt(b, lo) + c
       IN  [s |-> <<v % 2>>, c |-> v \div 2]
  ELSE LET mid == (lo + hi) \div 2
           low == BitsAddCarry(a, b, lo, mid, c)
           high == BitsAddCarry(a, b, mid + 1, hi, low.c)
       IN  [s |-> low.s \o high.s, c |-> high.c]

BitsAdd(a, b) ==
  LET sum == BitsAddCarry(a, b, 1, IF Len(a) > Len(b) THEN Len(a) ELSE Len(b), 0)
  IN  BitsTrim(sum.s \o <<sum.c>>)

\* b * k + c on the bits lo..hi for a small k: the product bits, then the
\* carry out
RECURSIVE BitsMulCarry(_, _, _, _, _)
BitsMulCarry(b, k, lo, hi, c) ==
  IF hi < lo THEN [s |-> <<>>, c |-> c]
  ELSE IF hi = lo
  THEN LET v == b[lo] * k + c
       IN  [s |-> <<v % 2>>, c |-> v \div 2]
  ELSE LET mid == (lo + hi) \div 2
           low == BitsMulCarry(b, k, lo, mid, c)
           high == BitsMulCarry(b, k, mid + 1, hi, low.c)
       IN  [s |-> low.s \o high.s, c |-> high.c]

BitsMul(b, k) ==
  LET prod == BitsMulCarry(b, k, 1, Len(b), 0)
  IN  BitsTrim(prod.s \o BitsOf(prod.c))

\* quotient and remainder by a small d > 0 of the bits lo..hi of b, taken
\* from the top with the remainder r carried in; the quotient bits are
\* listed highest first
RECURSIVE BitsDivCarry(_, _, _, _, _)
BitsDivCarry(b, d, lo, hi, r) ==
  IF hi < lo THEN [q |-> <<>>, r |-> r]
  ELSE IF hi = lo
  THEN LET x == 2 * r + b[lo]
       IN  IF x >= d THEN [q |-> <<1>>, r |-> x - d] ELSE [q |-> <<0>>, r |-> x]
  ELSE LET mid == (lo + hi) \div 2
           high == BitsDivCarry(b, d, mid + 1, hi, r)
           low == BitsDivCarry(b, d, lo, mid, high.r)
       IN  [q |-> high.q \o low.q, r |-> low.r]

BitsReverse(b) == [i \in 1..Len(b) |-> b[Len(b) + 1 - i]]

BitsDivRem(b, d) ==
  LET res == BitsDivCarry(b, d, 1, Len(b), 0)
  IN  [q |-> BitsReverse(res.q), r |-> res.r]

\* -1, 0 or 1 as a is below, equal to or above b
BitsCmp(a, b) ==
  LET differ == {i \in 1..(Len(a) + Len(b)) : BitAt(a, i) # BitAt(b, i)}
  IN  IF differ = {} THEN 0
      ELSE LET top == CHOOSE i \in differ : \A j \in differ : j <= i
           IN  IF BitAt(a, top) = 1 THEN 1 ELSE -1

\* a / d in double precision, for a whole a > 0 and a small whole d > 0:
\* the quotient carried to GuardPlaces binary places, cut to DoubleBits
\* significant bits and rounded to nearest, ties to even.  The result is
\* mant * 2^(drop - GuardPlaces); inexact tells whether it was rounded.
DoubleDiv(a, d) ==
  LET dr == BitsDivRem(BitsShl(a, GuardPlaces), d)
      q == BitsTrim(dr.q)
      drop == Len(q) - DoubleBits
      kept == BitsShr(q, drop)
      guard == q[drop]
      sticky == BitsLowSet(q, drop - 1) \/ dr.r # 0
      up == guard = 1 /\ (sticky \/ kept[1] = 1)
  IN  [mant |-> IF up THEN BitsAdd(kept, <<1>>) ELSE kept,
       drop |-> drop,
       inexact |-> guard = 1 \/ sticky]

\* variant of MathCeilDouble: the fraction is cut off
MathFloorDouble(x) ==
  IF x.drop >= GuardPlaces THEN BitsShl(x.mant, x.drop - GuardPlaces)
  ELSE BitsTrim(BitsShr(x.mant, GuardPlaces - x.drop))

\* Math.ceil(x) of a double x > 0, a whole number
MathCeilDouble(x) ==
  IF x.drop >= GuardPlaces THEN BitsShl(x.mant, x.drop - GuardPlaces)
  ELSE LET places == GuardPlaces - x.drop
           whole == BitsTrim(BitsShr(x.mant, places))
       IN  IF BitsLowSet(x.mant, places) THEN BitsAdd(whole, <<1>>) ELSE whole

\* ------------------------------------------------------------------
\* Array helpers used by calcCombos
\* ------------------------------------------------------------------
\* variant of Dedup: repeated values are kept
DedupKeepAll(list) == list

\* Array.from(new Set(list)): first occurrences, in order
RECURSIVE Dedup(_)
Dedup(list) ==
  IF list = <<>> THEN <<>>
  ELSE LET front == Dedup(SubSeq(list, 1, Len(list) - 1))
           x == list[Len(list)]
       IN  IF \E k \in 1..Len(front) : front[k] = x THEN front
           ELSE Append(front, x)

\* insert x into an ascending array, after every element not greater than x
RECURSIVE InsertAsc(_, _)
InsertAsc(sorted, x) ==
  IF sorted = <<>> THEN <<x>>
  ELSE LET last == sorted[Len(sorted)]
       IN  IF x - last < 0
           THEN Append(InsertAsc(SubSeq(sorted, 1, Len(sorted) - 1), x), last)
           ELSE Append(sorted, x)

\* list.sort((a, b) => a - b)
RECURSIVE SortAsc(_)
SortAsc(list) ==
  IF list = <<>> THEN <<>>
  ELSE InsertAsc(SortAsc(SubSeq(list, 1, Len(list) - 1)), list[Len(list)])

Product(c) == c.channelOC * c.clipOC

\* variant of InsertByProduct: the comparator's operands are swapped
RECURSIVE InsertByProductAscending(_, _)
InsertByProductAscending(sorted, x) ==
  IF sorted = <<>> THEN <<x>>
  ELSE LET last == sorted[Len(sorted)]
       IN  IF Product(x) - Product(last) < 0
           THEN Append(InsertByProductAscending(SubSeq(sorted, 1, Len(sorted) - 1), x), last)
           ELSE Append(sorted, x)

\* variant of InsertByProduct: x goes ahead of the elements of equal product
RECURSIVE InsertByProductTiesFirst(_, _)
InsertByProductTiesFirst(sorted, x) ==
  IF sorted = <<>> THEN <<x>>
  ELSE LET last == sorted[Len(sorted)]
       IN  IF Product(last) - Product(x) <= 0
           THEN Append(InsertByProductTiesFirst(SubSeq(sorted, 1, Len(sorted) - 1), x), last)
           ELSE Append(sorted, x)

\* insert combo x into an array sorted by descending product, after every
\* element whose product is not smaller (the sort is stable)
RECURSIVE InsertByProduct(_, _)
InsertByProduct(sorted, x) ==
  IF sorted = <<>> THEN <<x>>
  ELSE LET last == sorted[Len(sorted)]
       IN  IF Product(last) - Product(x) < 0
           THEN Append(InsertByProduct(SubSeq(sorted, 1, Len(sorted) - 1), x), last)
           ELSE Append(sorted, x)

\* variant of SortByProduct: the array is sorted by ascending product
RECURSIVE SortByProductAscending(_)
SortByProductAscending(out) ==
  IF out = <<>> THEN <<>>
  ELSE InsertByProductAscending(SortByProductAscending(SubSeq(out, 1, Len(out) - 1)),
                                out[Len(out)])

\* variant of SortByProduct: the array is left in construction order
SortByProductOmitted(out) == out

\* out.sort((a, b) => (b.channelOC * b.clipOC) - (a.channelOC * a.clipOC))
RECURSIVE SortByProduct(_)
SortByProduct(out) ==
  IF out = <<>> THEN <<>>
  ELSE InsertByProduct(SortByProduct(SubSeq(out, 1, Len(out) - 1)), out[Len(out)])

\* ------------------------------------------------------------------
\* Pure calculation helpers
\* ------------------------------------------------------------------
CLIP_CAP == 36

\* variant of calcBaseAssemblyPsf: the OSB load is added unconditionally
calcBaseAssemblyPsfAlwaysOSB(opts) ==
  LET osb == opts.osbPsf
      gyp == Mul(Num(opts.drywallLayers), opts.drywallPsf)
  IN  Add(Add(osb, gyp), opts.insulPsf)

calcBaseAssemblyPsf(opts) ==
  LET osb == IF opts.includeOSB THEN opts.osbPsf ELSE Zero
      gyp == Mul(Num(opts.drywallLayers), opts.drywallPsf)
  IN  Add(Add(osb, gyp), opts.insulPsf)

\* variant of calcCloudAvgPsf: the mount mode is not tested
calcCloudAvgPsfAnyMode(mode, areaFt2, totalCloudWeightLb) ==
  IF GT(areaFt2, Zero)
  THEN Div(totalCloudWeightLb, areaFt2)
  ELSE Zero

\* variant of calcCloudAvgPsf: the area is not tested before dividing
calcCloudAvgPsfUnguarded(mode, areaFt2, totalCloudWeightLb) ==
  IF mode = "distributed"
  THEN Div(totalCloudWeightLb, areaFt2)
  ELSE Zero

calcCloudAvgPsf(mode, areaFt2, totalCloudWeightLb) ==
  IF mode = "distributed" /\ GT(areaFt2, Zero)
  THEN Div(totalCloudWeightLb, areaFt2)
  ELSE Zero

\* variant of MakeCombo: a load equal to the capacity fails
MakeComboStrict(ch, cl, grid, clipCap) ==
  LET tribAreaFt2 == Div(Num(ch * cl), Num(144))
      loadPerClip == Mul(tribAreaFt2, grid)
  IN  [channelOC |-> ch,
       clipOC |-> cl,
       tribAreaFt2 |-> tribAreaFt2,
       loadPerClip |-> loadPerClip,
       pass |-> isFinite(loadPerClip) /\ LT(loadPerClip, clipCap),
       safety |-> IF isFinite(loadPerClip) /\ GT(loadPerClip, Zero)
                  THEN Div(clipCap, loadPerClip)
                  ELSE Infinity]

\* variant of MakeCombo: the safety factor is load over capacity
MakeComboInvertedSafety(ch, cl, grid, clipCap) ==
  LET tribAreaFt2 == Div(Num(ch * cl), Num(144))
      loadPerClip == Mul(tribAreaFt2, grid)
  IN  [channelOC |-> ch,
       clipOC |-> cl,
       tribAreaFt2 |-> tribAreaFt2,
       loadPerClip |-> loadPerClip,
       pass |-> isFinite(loadPerClip) /\ LE(loadPerClip, clipCap),
       safety |-> IF isFinite(loadPerClip) /\ GT(loadPerClip, Zero)
                  THEN Div(loadPerClip, clipCap)
                  ELSE Infinity]

\* variant of MakeCombo: a load that is not positive does not pass
MakeComboPositiveOnly(ch, cl, grid, clipCap) ==
  LET tribAreaFt2 == Div(Num(ch * cl), Num(144))
      loadPerClip == Mul(tribAreaFt2, grid)
  IN  [channelOC |-> ch,
       clipOC |-> cl,
       tribAreaFt2 |-> tribAreaFt2,
       loadPerClip |-> loadPerClip,
       pass |-> isFinite(loadPerClip) /\ GT(loadPerClip, Zero)
                  /\ LE(loadPerClip, clipCap),
       safety |-> IF isFinite(loadPerClip) /\ GT(loadPerClip, Zero)
                  THEN Div(clipCap, loadPerClip)
                  ELSE Infinity]

\* variant of MakeCombo: the safety factor does not test isFinite
MakeComboSafetyUnguarded(ch, cl, grid, clipCap) ==
  LET tribAreaFt2 == Div(Num(ch * cl), Num(144))
      loadPerClip == Mul(tribAreaFt2, grid)
  IN  [channelOC |-> ch,
       clipOC |-> cl,
       tribAreaFt2 |-> tribAreaFt2,
       loadPerClip |-> loadPerClip,
       pass |-> isFinite(loadPerClip) /\ LE(loadPerClip, clipCap),
       safety |-> IF GT(loadPerClip, Zero)
                  THEN Div(clipCap, loadPerClip)
                  ELSE Infinity]

\* the body of the inner loop of calcCombos: the combination for (ch, cl)
MakeCombo(ch, cl, grid, clipCap) ==
  LET tribAreaFt2 == Div(Num(ch * cl), Num(144))
      loadPerClip == Mul(tribAreaFt2, grid)
  IN  [channelOC |-> ch,
       clipOC |-> cl,
       tribAreaFt2 |-> tribAreaFt2,
       loadPerClip |-> loadPerClip,
       pass |-> isFinite(loadPerClip) /\ LE(loadPerClip, clipCap),
       safety |-> IF isFinite(loadPerClip) /\ GT(loadPerClip, Zero)
                  THEN Div(clipCap, loadPerClip)
                  ELSE Infinity]

\* variant of Enumerate: combinations with a non-finite load are not pushed
EnumerateFiniteOnly(channels, clips, grid, clipCap) ==
  SelectSeq([k \in 1..(Len(channels) * Len(clips)) |->
               MakeCombo(channels[((k - 1) \div Len(clips)) + 1],
                         clips[((k - 1) % Len(clips)) + 1],
                         grid, clipCap)],
            LAMBDA c : isFinite(c.loadPerClip))

\* the nested loops of calcCombos: out, in construction order
Enumerate(channels, clips, grid, clipCap) ==
  [k \in 1..(Len(channels) * Len(clips)) |->
     MakeCombo(channels[((k - 1) \div Len(clips)) + 1],
               clips[((k - 1) % Len(clips)) + 1],
               grid, clipCap)]

\* variant of calcCombos: the structure constraint is ignored
calcCombosUnconstrained(params) ==
  LET channels == SortAsc(Dedup(params.allowedChannelSpacings))
      clips == SortAsc(Dedup(params.allowedClipSpacings))
      out == Enumerate(channels, clips, params.gridPsf, params.clipCap)
  IN  SortByProduct(out)

calcCombos(params) ==
  LET channels == SortAsc(Dedup(params.allowedChannelSpacings))
      clips == IF params.constrainToStructure
               THEN <<params.structureSpacing>>
               ELSE SortAsc(Dedup(params.allowedClipSpacings))
      out == Enumerate(channels, clips, params.gridPsf, params.clipCap)
  IN  SortByProduct(out)

Null == [null |-> TRUE]

\* variant of firstPassing: the scan runs from the last index down
RECURSIVE firstPassingBackFrom(_, _)
firstPassingBackFrom(list, k) ==
  IF k < 1 THEN Null
  ELSE IF list[k].pass THEN list[k]
  ELSE firstPassingBackFrom(list, k - 1)

firstPassingFromEnd(list) == firstPassingBackFrom(list, Len(list))

RECURSIVE firstPassingFrom(_, _)
firstPassingFrom(list, k) ==
  IF k > Len(list) THEN Null
  ELSE IF list[k].pass THEN list[k]
  ELSE firstPassingFrom(list, k + 1)

firstPassing(list) == firstPassingFrom(list, 1)

\* ------------------------------------------------------------------
\* Bounds and input values
\* ------------------------------------------------------------------
\* number of input events followed from the initial render
MaxChanges == 3

\* largest cloud count entered in a cloud field
MaxClouds == 1

\* longest spacing list handed to calcCombos directly
MaxListLen == 2

\* checkbox values of the two spacing menus
ChannelOptions == {12, 16, 24}

ClipOptions == {24, 32, 36, 48}

\* values committed through the number fields
AreaValues == {Num(-100), Zero, Num(100), Num(400)}

OsbPsfValues == {Norm(27, 10), Num(3)}

DrywallLayersValues == {0, 1, 2}

DrywallPsfValues == {Norm(25, 10), Num(2)}

InsulPsfValues == {Norm(2, 10), Zero}

MiscPsfValues == {Num(-20), Zero, Num(1)}

StructureSpacingValues == {-24, 0, 16, 48}

\* grid loads handed to calcCombos directly: any JavaScript number
GridPsfValues ==
  {NegInfinity, Num(-5), Zero, Norm(49, 10), Num(9), Norm(95, 10), Num(100),
   Infinity, NaN}

\* spacings handed to calcCombos directly
ChannelArgValues == {12, 16, 24}

ClipArgValues == {24, 36, 48}

\* longest array of combinations handed to firstPassing directly
MaxCombosLen == 2

\* combinations handed to firstPassing directly
ComboArgValues ==
  {MakeCombo(ch, cl, g, Num(CLIP_CAP)) :
     ch \in {12, 24}, cl \in {24, 48}, g \in {Num(9), Num(100)}}

\* largest odd part of the areas handed to the grid count directly
MaxAreaMantissa == 12

\* binary exponents of those areas
AreaExponents == {0, 3, 52, 54, 56}

\* whole areas m * 2^s, in binary: each is a double, m having few bits
AreaArgBits == {BitsShl(BitsOf(m), s) : m \in 0..MaxAreaMantissa, s \in AreaExponents}

\* recommendations whose tributary area is a whole number, hence a double
RecArgValues ==
  {c \in {MakeCombo(ch, cl, Num(1), Num(CLIP_CAP)) :
            ch \in ChannelOptions, cl \in ClipOptions} :
     c.tribAreaFt2[2] = 1}

\* all arrays over S of length at most n (repeated values included)
SeqsUpTo(S, n) == UNION {[1..k -> S] : k \in 0..n}

\* ------------------------------------------------------------------
\* State
\* ------------------------------------------------------------------
VARIABLES
  area, includeOSB, osbPsf, drywallLayers, drywallPsf, insulPsf, miscPsf,
  mountMode, c4x1, c4x2, c4x3, c4x4,
  allowedChannelSpacings, allowedClipSpacings, constrainToStructure,
  structureSpacing,
  baseAssemblyPsf, cloudAvgPsf, gridPsf, maxAreaPerClip, maxSpacingProduct,
  combos, rec, estimatedClipsOnGrid, dedicatedCloudClips, totalClips,
  dedicatedRows,
  pc, nChanges

assemblyVars == <<includeOSB, osbPsf, drywallLayers, drywallPsf, insulPsf>>

cloudVars == <<c4x1, c4x2, c4x3, c4x4>>

spacingVars ==
  <<allowedChannelSpacings, allowedClipSpacings, constrainToStructure,
    structureSpacing>>

inputVars == <<area, assemblyVars, miscPsf, mountMode, cloudVars, spacingVars>>

memoVars ==
  <<baseAssemblyPsf, cloudAvgPsf, gridPsf, maxAreaPerClip, maxSpacingProduct,
    combos, rec, estimatedClipsOnGrid, dedicatedCloudClips, totalClips,
    dedicatedRows>>

vars == <<inputVars, memoVars, pc, nChanges>>

\* ------------------------------------------------------------------
\* The derived values of App, as computed by one render
\* ------------------------------------------------------------------
totalCloudWeight == (c4x1 * 15) + (c4x2 * 30) + (c4x3 * 45) + (c4x4 * 60)

gridPsfOf(base, cloud, misc) == Add(Add(base, cloud), misc)

maxAreaPerClipOf(grid) ==
  IF GT(grid, Zero) THEN Div(Num(CLIP_CAP), grid) ELSE Infinity

\* variant of maxSpacingProductOf: square feet are converted with 12
maxSpacingProductLinear(maxArea) == Mul(maxArea, Num(12))

maxSpacingProductOf(maxArea) == Mul(maxArea, Num(144))

\* variant of estimatedClipsOnGridOf: a non-positive area is not tested
estimatedClipsOnGridAnyArea(r, a) ==
  IF r = Null THEN Zero
  ELSE MathCeil(Div(a, MathMax(r.tribAreaFt2, Norm(1, 1000000))))

estimatedClipsOnGridOf(r, a) ==
  IF r = Null \/ LE(a, Zero) THEN Zero
  ELSE MathCeil(Div(a, MathMax(r.tribAreaFt2, Norm(1, 1000000))))

\* estimatedClipsOnGrid in double precision, for a whole area a in binary
estimatedClipsOnGridDouble(r, a) ==
  IF r = Null \/ a = <<>> THEN <<>>
  ELSE LET tribFt2 == MathMax(r.tribAreaFt2, Norm(1, 1000000))
       IN  MathCeilDouble(DoubleDiv(BitsMul(a, tribFt2[2]), tribFt2[1]))

\* variant of dedicatedCloudClipsOf: the mount mode is not tested
dedicatedCloudClipsAnyMode(mode, n1, n2, n3, n4) ==
  (n1 + n2 + n3 + n4) * 4

dedicatedCloudClipsOf(mode, n1, n2, n3, n4) ==
  IF mode # "dedicated" THEN 0
  ELSE (n1 + n2 + n3 + n4) * 4

totalClipsOf(onGrid, dedicated) == Add(onGrid, Num(dedicated))

\* variant of dedicatedItem: the class weight is not divided among four clips
dedicatedItemWholeWeight(name, lb) ==
  LET load == Num(lb)
  IN  [name |-> name,
       load |-> load,
       pass |-> LE(load, Num(CLIP_CAP)),
       safety |-> IF GT(load, Zero) THEN Div(Num(CLIP_CAP), load) ELSE Infinity]

dedicatedItem(name, lb) ==
  LET load == Div(Num(lb), Num(4))
  IN  [name |-> name,
       load |-> load,
       pass |-> LE(load, Num(CLIP_CAP)),
       safety |-> IF GT(load, Zero) THEN Div(Num(CLIP_CAP), load) ELSE Infinity]

dedicatedRowsOf(mode) ==
  IF mode # "dedicated" THEN <<>>
  ELSE <<dedicatedItem("4x1 (15 lb)", 15), dedicatedItem("4x2 (30 lb)", 30),
         dedicatedItem("4x3 (45 lb)", 45), dedicatedItem("4x4 (60 lb)", 60)>>

combosParams(grid, channels, clips, constrain, spacing) ==
  [gridPsf |-> grid,
   allowedChannelSpacings |-> channels,
   allowedClipSpacings |-> clips,
   constrainToStructure |-> constrain,
   structureSpacing |-> spacing,
   clipCap |-> Num(CLIP_CAP)]

\* ------------------------------------------------------------------
\* App: construction and first render
\* ------------------------------------------------------------------
InitInputs ==
  /\ area = Num(400)
  /\ includeOSB = TRUE
  /\ osbPsf = Norm(27, 10)
  /\ drywallLayers = 2
  /\ drywallPsf = Norm(25, 10)
  /\ insulPsf = Norm(2, 10)
  /\ miscPsf = Zero
  /\ mountMode = "distributed"
  /\ c4x1 = 0 /\ c4x2 = 0 /\ c4x3 = 0 /\ c4x4 = 0
  /\ allowedChannelSpacings = <<12, 16, 24>>
  /\ allowedClipSpacings = <<24, 32, 36, 48>>
  /\ constrainToStructure = FALSE
  /\ structureSpacing = 48

assemblyOpts ==
  [includeOSB |-> includeOSB, osbPsf |-> osbPsf, drywallLayers |-> drywallLayers,
   drywallPsf |-> drywallPsf, insulPsf |-> insulPsf]

FirstRender ==
  /\ baseAssemblyPsf = calcBaseAssemblyPsf(assemblyOpts)
  /\ cloudAvgPsf = calcCloudAvgPsf(mountMode, area, Num(totalCloudWeight))
  /\ gridPsf = gridPsfOf(baseAssemblyPsf, cloudAvgPsf, miscPsf)
  /\ maxAreaPerClip = maxAreaPerClipOf(gridPsf)
  /\ maxSpacingProduct = maxSpacingProductOf(maxAreaPerClip)
  /\ combos = calcCombos(combosParams(gridPsf, allowedChannelSpacings,
                                      allowedClipSpacings, constrainToStructure,
                                      structureSpacing))
  /\ rec = firstPassing(combos)
  /\ estimatedClipsOnGrid = estimatedClipsOnGridOf(rec, area)
  /\ dedicatedCloudClips = dedicatedCloudClipsOf(mountMode, c4x1, c4x2, c4x3, c4x4)
  /\ totalClips = totalClipsOf(estimatedClipsOnGrid, dedicatedCloudClips)
  /\ dedicatedRows = dedicatedRowsOf(mountMode)

Init ==
  /\ InitInputs
  /\ FirstRender
  /\ pc = "rendered"
  /\ nChanges = 0

\* ------------------------------------------------------------------
\* App: re-render after a state setter.  Each useMemo cell keeps its value
\* unless one of its dependencies differs from the previous render.
\* ------------------------------------------------------------------
\* variant of Render: the grid count memo lists rec alone as its dependency
RenderGridCountKeyedOnRecOnly ==
  /\ baseAssemblyPsf' =
       IF assemblyVars' # assemblyVars
       THEN calcBaseAssemblyPsf(assemblyOpts') ELSE baseAssemblyPsf
  /\ cloudAvgPsf' =
       IF <<mountMode', area', totalCloudWeight'>> # <<mountMode, area, totalCloudWeight>>
       THEN calcCloudAvgPsf(mountMode', area', Num(totalCloudWeight'))
       ELSE cloudAvgPsf
  /\ gridPsf' =
       IF <<baseAssemblyPsf', cloudAvgPsf', miscPsf'>> # <<baseAssemblyPsf, cloudAvgPsf, miscPsf>>
       THEN gridPsfOf(baseAssemblyPsf', cloudAvgPsf', miscPsf') ELSE gridPsf
  /\ maxAreaPerClip' =
       IF gridPsf' # gridPsf THEN maxAreaPerClipOf(gridPsf') ELSE maxAreaPerClip
  /\ maxSpacingProduct' =
       IF maxAreaPerClip' # maxAreaPerClip
       THEN maxSpacingProductOf(maxAreaPerClip') ELSE maxSpacingProduct
  /\ LET combosStale == <<gridPsf', spacingVars'>> # <<gridPsf, spacingVars>>
         \* a recomputed combos is a new array, and a non-null rec a new object
     IN  /\ combos' =
              IF combosStale
              THEN calcCombos(combosParams(gridPsf', allowedChannelSpacings',
                                           allowedClipSpacings',
                                           constrainToStructure', structureSpacing'))
              ELSE combos
         /\ rec' = IF combosStale THEN firstPassing(combos') ELSE rec
         /\ estimatedClipsOnGrid' =
              IF combosStale /\ ~(rec = Null /\ rec' = Null)
              THEN estimatedClipsOnGridOf(rec', area') ELSE estimatedClipsOnGrid
  /\ dedicatedCloudClips' =
       IF <<mountMode', cloudVars'>> # <<mountMode, cloudVars>>
       THEN dedicatedCloudClipsOf(mountMode', c4x1', c4x2', c4x3', c4x4')
       ELSE dedicatedCloudClips
  /\ totalClips' =
       IF <<estimatedClipsOnGrid', dedicatedCloudClips'>> # <<estimatedClipsOnGrid, dedicatedCloudClips>>
       THEN totalClipsOf(estimatedClipsOnGrid', dedicatedCloudClips') ELSE totalClips
  /\ dedicatedRows' =
       IF mountMode' # mountMode THEN dedicatedRowsOf(mountMode') ELSE dedicatedRows

Render ==
  /\ baseAssemblyPsf' =
       IF assemblyVars' # assemblyVars
       THEN calcBaseAssemblyPsf(assemblyOpts') ELSE baseAssemblyPsf
  /\ cloudAvgPsf' =
       IF <<mountMode', area', totalCloudWeight'>> # <<mountMode, area, totalCloudWeight>>
       THEN calcCloudAvgPsf(mountMode', area', Num(totalCloudWeight'))
       ELSE cloudAvgPsf
  /\ gridPsf' =
       IF <<baseAssemblyPsf', cloudAvgPsf', miscPsf'>> # <<baseAssemblyPsf, cloudAvgPsf, miscPsf>>
       THEN gridPsfOf(baseAssemblyPsf', cloudAvgPsf', miscPsf') ELSE gridPsf
  /\ maxAreaPerClip' =
       IF gridPsf' # gridPsf THEN maxAreaPerClipOf(gridPsf') ELSE maxAreaPerClip
  /\ maxSpacingProduct' =
       IF maxAreaPerClip' # maxAreaPerClip
       THEN maxSpacingProductOf(maxAreaPerClip') ELSE maxSpacingProduct
  /\ LET combosStale == <<gridPsf', spacingVars'>> # <<gridPsf, spacingVars>>
         \* a recomputed combos is a new array, and a non-null rec a new object
     IN  /\ combos' =
              IF combosStale
              THEN calcCombos(combosParams(gridPsf', allowedChannelSpacings',
                                           allowedClipSpacings',
                                           constrainToStructure', structureSpacing'))
              ELSE combos
         /\ rec' = IF combosStale THEN firstPassing(combos') ELSE rec
         /\ estimatedClipsOnGrid' =
              IF (combosStale /\ ~(rec = Null /\ rec' = Null)) \/ area' # area
              THEN estimatedClipsOnGridOf(rec', area') ELSE estimatedClipsOnGrid
  /\ dedicatedCloudClips' =
       IF <<mountMode', cloudVars'>> # <<mountMode, cloudVars>>
       THEN dedicatedCloudClipsOf(mountMode', c4x1', c4x2', c4x3', c4x4')
       ELSE dedicatedCloudClips
  /\ totalClips' =
       IF <<estimatedClipsOnGrid', dedicatedCloudClips'>> # <<estimatedClipsOnGrid, dedicatedCloudClips>>
       THEN totalClipsOf(estimatedClipsOnGrid', dedicatedCloudClips') ELSE totalClips
  /\ dedicatedRows' =
       IF mountMode' # mountMode THEN dedicatedRowsOf(mountMode') ELSE dedicatedRows

\* an input event on the rendered App
Event ==
  /\ pc = "rendered"
  /\ nChanges < MaxChanges
  /\ nChanges' = nChanges + 1
  /\ pc' = pc

\* ------------------------------------------------------------------
\* App: the input handlers, each followed by the re-render it schedules
\* ------------------------------------------------------------------
SetArea(v) ==
  /\ Event
  /\ v # area
  /\ area' = v
  /\ UNCHANGED <<assemblyVars, miscPsf, mountMode, cloudVars, spacingVars>>
  /\ Render

SetIncludeOSB ==
  /\ Event
  /\ includeOSB' = ~includeOSB
  /\ UNCHANGED <<area, osbPsf, drywallLayers, drywallPsf, insulPsf, miscPsf,
                 mountMode, cloudVars, spacingVars>>
  /\ Render

\* the OSB weight field is rendered only while includeOSB is set
SetOsbPsf(v) ==
  /\ Event
  /\ includeOSB
  /\ v # osbPsf
  /\ osbPsf' = v
  /\ UNCHANGED <<area, includeOSB, drywallLayers, drywallPsf, insulPsf, miscPsf,
                 mountMode, cloudVars, spacingVars>>
  /\ Render

SetDrywallLayers(v) ==
  /\ Event
  /\ v # drywallLayers
  /\ drywallLayers' = v
  /\ UNCHANGED <<area, includeOSB, osbPsf, drywallPsf, insulPsf, miscPsf,
                 mountMode, cloudVars, spacingVars>>
  /\ Render

SetDrywallPsf(v) ==
  /\ Event
  /\ v # drywallPsf
  /\ drywallPsf' = v
  /\ UNCHANGED <<area, includeOSB, osbPsf, drywallLayers, insulPsf, miscPsf,
                 mountMode, cloudVars, spacingVars>>
  /\ Render

SetInsulPsf(v) ==
  /\ Event
  /\ v # insulPsf
  /\ insulPsf' = v
  /\ UNCHANGED <<area, includeOSB, osbPsf, drywallLayers, drywallPsf, miscPsf,
                 mountMode, cloudVars, spacingVars>>
  /\ Render

SetMiscPsf(v) ==
  /\ Event
  /\ v # miscPsf
  /\ miscPsf' = v
  /\ UNCHANGED <<area, assemblyVars, mountMode, cloudVars, spacingVars>>
  /\ Render

\* the radio button of the mode that is not selected
SetMountMode(m) ==
  /\ Event
  /\ m # mountMode
  /\ mountMode' = m
  /\ UNCHANGED <<area, assemblyVars, miscPsf, cloudVars, spacingVars>>
  /\ Render

SetC4x1(v) ==
  /\ Event
  /\ v # c4x1
  /\ c4x1' = v
  /\ UNCHANGED <<area, assemblyVars, miscPsf, mountMode, c4x2, c4x3, c4x4,
                 spacingVars>>
  /\ Render

SetC4x2(v) ==
  /\ Event
  /\ v # c4x2
  /\ c4x2' = v
  /\ UNCHANGED <<area, assemblyVars, miscPsf, mountMode, c4x1, c4x3, c4x4,
                 spacingVars>>
  /\ Render

SetC4x3(v) ==
  /\ Event
  /\ v # c4x3
  /\ c4x3' = v
  /\ UNCHANGED <<area, assemblyVars, miscPsf, mountMode, c4x1, c4x2, c4x4,
                 spacingVars>>
  /\ Render

SetC4x4(v) ==
  /\ Event
  /\ v # c4x4
  /\ c4x4' = v
  /\ UNCHANGED <<area, assemblyVars, miscPsf, mountMode, c4x1, c4x2, c4x3,
                 spacingVars>>
  /\ Render

includes(list, v) == \E k \in 1..Len(list) : list[k] = v

\* prev => e.target.checked ? prev.concat([v]) : prev.filter(x => x !== v)
toggled(prev, v) ==
  IF ~includes(prev, v) THEN Append(prev, v)
  ELSE SelectSeq(prev, LAMBDA x : x # v)

ToggleChannelSpacing(v) ==
  /\ Event
  /\ allowedChannelSpacings' = toggled(allowedChannelSpacings, v)
  /\ UNCHANGED <<area, assemblyVars, miscPsf, mountMode, cloudVars,
                 allowedClipSpacings, constrainToStructure, structureSpacing>>
  /\ Render

\* the clip checkboxes are disabled while constrainToStructure is set
ToggleClipSpacing(v) ==
  /\ Event
  /\ ~constrainToStructure
  /\ allowedClipSpacings' = toggled(allowedClipSpacings, v)
  /\ UNCHANGED <<area, assemblyVars, miscPsf, mountMode, cloudVars,
                 allowedChannelSpacings, constrainToStructure, structureSpacing>>
  /\ Render

SetConstrainToStructure ==
  /\ Event
  /\ constrainToStructure' = ~constrainToStructure
  /\ UNCHANGED <<area, assemblyVars, miscPsf, mountMode, cloudVars,
                 allowedChannelSpacings, allowedClipSpacings, structureSpacing>>
  /\ Render

SetStructureSpacing(v) ==
  /\ Event
  /\ v # structureSpacing
  /\ structureSpacing' = v
  /\ UNCHANGED <<area, assemblyVars, miscPsf, mountMode, cloudVars,
                 allowedChannelSpacings, allowedClipSpacings, constrainToStructure>>
  /\ Render

Next ==
  \/ \E v \in AreaValues : SetArea(v)
  \/ SetIncludeOSB
  \/ \E v \in OsbPsfValues : SetOsbPsf(v)
  \/ \E v \in DrywallLayersValues : SetDrywallLayers(v)
  \/ \E v \in DrywallPsfValues : SetDrywallPsf(v)
  \/ \E v \in InsulPsfValues : SetInsulPsf(v)
  \/ \E v \in MiscPsfValues : SetMiscPsf(v)
  \/ \E m \in {"distributed", "dedicated"} : SetMountMode(m)
  \/ \E v \in 0..MaxClouds : SetC4x1(v)
  \/ \E v \in 0..MaxClouds : SetC4x2(v)
  \/ \E v \in 0..MaxClouds : SetC4x3(v)
  \/ \E v \in 0..MaxClouds : SetC4x4(v)
  \/ \E v \in ChannelOptions : ToggleChannelSpacing(v)
  \/ \E v \in ClipOptions : ToggleClipSpacing(v)
  \/ SetConstrainToStructure
  \/ \E v \in StructureSpacingValues : SetStructureSpacing(v)

Spec == Init /\ [][Next]_vars

\* ------------------------------------------------------------------
\* The pure functions calcCombos and firstPassing applied to arbitrary
\* arguments: Init draws the arguments, the two actions apply the functions.
\* ------------------------------------------------------------------
InitCalc ==
  /\ gridPsf \in GridPsfValues
  /\ allowedChannelSpacings \in SeqsUpTo(ChannelArgValues, MaxListLen)
  /\ allowedClipSpacings \in SeqsUpTo(ClipArgValues, MaxListLen)
  /\ constrainToStructure \in BOOLEAN
  /\ structureSpacing \in StructureSpacingValues
  /\ combos = <<>>
  /\ rec = Null
  /\ pc = "args"
  /\ nChanges = 0
  /\ area = Num(400)
  /\ includeOSB = TRUE
  /\ osbPsf = Norm(27, 10)
  /\ drywallLayers = 2
  /\ drywallPsf = Norm(25, 10)
  /\ insulPsf = Norm(2, 10)
  /\ miscPsf = Zero
  /\ mountMode = "distributed"
  /\ c4x1 = 0 /\ c4x2 = 0 /\ c4x3 = 0 /\ c4x4 = 0
  /\ baseAssemblyPsf = Zero
  /\ cloudAvgPsf = Zero
  /\ maxAreaPerClip = maxAreaPerClipOf(gridPsf)
  /\ maxSpacingProduct = maxSpacingProductOf(maxAreaPerClip)
  /\ estimatedClipsOnGrid = Zero
  /\ dedicatedCloudClips = 0
  /\ totalClips = Zero
  /\ dedicatedRows = <<>>

CallCalcCombos ==
  /\ pc = "args"
  /\ combos' = calcCombos(combosParams(gridPsf, allowedChannelSpacings,
                                       allowedClipSpacings, constrainToStructure,
                                       structureSpacing))
  /\ pc' = "combos"
  /\ UNCHANGED <<inputVars, baseAssemblyPsf, cloudAvgPsf, gridPsf, maxAreaPerClip,
                 maxSpacingProduct, rec, estimatedClipsOnGrid, dedicatedCloudClips,
                 totalClips, dedicatedRows, nChanges>>

CallFirstPassing ==
  /\ pc = "combos"
  /\ rec' = firstPassing(combos)
  /\ pc' = "rec"
  /\ UNCHANGED <<inputVars, baseAssemblyPsf, cloudAvgPsf, gridPsf, maxAreaPerClip,
                 maxSpacingProduct, combos, estimatedClipsOnGrid,
                 dedicatedCloudClips, totalClips, dedicatedRows, nChanges>>

NextCalc == CallCalcCombos \/ CallFirstPassing

SpecCalc == InitCalc /\ [][NextCalc]_vars

\* ------------------------------------------------------------------
\* The pure function firstPassing applied to an arbitrary array of
\* combinations, in any order.
\* ------------------------------------------------------------------
InitFirst ==
  /\ combos \in SeqsUpTo(ComboArgValues, MaxCombosLen)
  /\ rec = Null
  /\ pc = "combos"
  /\ nChanges = 0
  /\ gridPsf = Zero
  /\ allowedChannelSpacings = <<>>
  /\ allowedClipSpacings = <<>>
  /\ constrainToStructure = FALSE
  /\ structureSpacing = 48
  /\ area = Num(400)
  /\ includeOSB = TRUE
  /\ osbPsf = Norm(27, 10)
  /\ drywallLayers = 2
  /\ drywallPsf = Norm(25, 10)
  /\ insulPsf = Norm(2, 10)
  /\ miscPsf = Zero
  /\ mountMode = "distributed"
  /\ c4x1 = 0 /\ c4x2 = 0 /\ c4x3 = 0 /\ c4x4 = 0
  /\ baseAssemblyPsf = Zero
  /\ cloudAvgPsf = Zero
  /\ maxAreaPerClip = Infinity
  /\ maxSpacingProduct = Infinity
  /\ estimatedClipsOnGrid = Zero
  /\ dedicatedCloudClips = 0
  /\ totalClips = Zero
  /\ dedicatedRows = <<>>

NextFirst == CallFirstPassing

SpecFirst == InitFirst /\ [][NextFirst]_vars

\* ------------------------------------------------------------------
\* The grid count computed in double precision from a recommendation and a
\* whole area of any magnitude.
\* ------------------------------------------------------------------
InitCeil ==
  /\ area \in AreaArgBits
  /\ rec \in RecArgValues \cup {Null}
  /\ estimatedClipsOnGrid = <<>>
  /\ pc = "area"
  /\ nChanges = 0
  /\ combos = <<>>
  /\ gridPsf = Num(1)
  /\ allowedChannelSpacings = <<>>
  /\ allowedClipSpacings = <<>>
  /\ constrainToStructure = FALSE
  /\ structureSpacing = 48
  /\ includeOSB = TRUE
  /\ osbPsf = Norm(27, 10)
  /\ drywallLayers = 2
  /\ drywallPsf = Norm(25, 10)
  /\ insulPsf = Norm(2, 10)
  /\ miscPsf = Zero
  /\ mountMode = "distributed"
  /\ c4x1 = 0 /\ c4x2 = 0 /\ c4x3 = 0 /\ c4x4 = 0
  /\ baseAssemblyPsf = Zero
  /\ cloudAvgPsf = Zero
  /\ maxAreaPerClip = Num(CLIP_CAP)
  /\ maxSpacingProduct = maxSpacingProductOf(Num(CLIP_CAP))
  /\ dedicatedCloudClips = 0
  /\ totalClips = Zero
  /\ dedicatedRows = <<>>

CallEstimatedClips ==
  /\ pc = "area"
  /\ estimatedClipsOnGrid' = estimatedClipsOnGridDouble(rec, area)
  /\ pc' = "count"
  /\ UNCHANGED <<inputVars, baseAssemblyPsf, cloudAvgPsf, gridPsf, maxAreaPerClip,
                 maxSpacingProduct, combos, rec, dedicatedCloudClips, totalClips,
                 dedicatedRows, nChanges>>

NextCeil == CallEstimatedClips

SpecCeil == InitCeil /\ [][NextCeil]_vars

\* ------------------------------------------------------------------
\* Properties
\* ------------------------------------------------------------------
Range(list) == {list[k] : k \in 1..Len(list)}

\* combos holds the value returned by calcCombos for the current arguments
CombosReturned == pc # "args"

\* positions of the (a, b) combination in combos
PositionsOf(a, b) ==
  {k \in 1..Len(combos) : combos[k].channelOC = a /\ combos[k].clipOC = b}

\* C1: a non-null recommendation firstPassing(calcCombos(...)) is a passing
\* element of the enumerated sequence, and no passing element of the sequence
\* has a strictly larger product channelOC x clipOC.
C1_FirstPassIsWidest ==
  (pc = "rec" /\ rec # Null) =>
    /\ rec \in Range(combos)
    /\ rec.pass
    /\ \A k \in 1..Len(combos) :
         combos[k].pass => Product(combos[k]) <= Product(rec)

\* the recommendation is neither the first element built nor the first element
\* of the sequence: wider combinations fail and narrower ones pass as well
C1_Witness ==
  /\ pc = "rec"
  /\ rec # Null
  /\ \E k \in 1..Len(combos) : ~combos[k].pass /\ Product(combos[k]) > Product(rec)
  /\ \E k \in 1..Len(combos) : combos[k].pass /\ Product(combos[k]) < Product(rec)

\* C2: adjacent elements of the sequence returned by calcCombos are in
\* non-increasing order of the product channelOC x clipOC.
C2_WidestFirst ==
  CombosReturned =>
    \A k \in 1..(Len(combos) - 1) : Product(combos[k]) >= Product(combos[k + 1])

\* four combinations whose construction order is not the returned order
C2_Witness ==
  /\ pc = "combos"
  /\ Len(combos) = 4
  /\ \E k \in 1..3 :
       /\ Product(combos[k]) > Product(combos[k + 1])
       /\ combos[k].channelOC < combos[k + 1].channelOC

\* C3: without the structure constraint calcCombos returns exactly one
\* combination for every pair of a distinct channel spacing and a distinct
\* clip spacing and nothing else; every allowed clip spacing appears when the
\* channel list is non-empty; an empty list gives an empty sequence.
C3_FullCrossProduct ==
  (CombosReturned /\ ~constrainToStructure) =>
    /\ \A a \in Range(allowedChannelSpacings), b \in Range(allowedClipSpacings) :
         Cardinality(PositionsOf(a, b)) = 1
    /\ \A k \in 1..Len(combos) :
         /\ combos[k].channelOC \in Range(allowedChannelSpacings)
         /\ combos[k].clipOC \in Range(allowedClipSpacings)
    /\ Len(combos) = Cardinality(Range(allowedChannelSpacings))
                       * Cardinality(Range(allowedClipSpacings))
    /\ allowedChannelSpacings # <<>> =>
         \A b \in Range(allowedClipSpacings) :
           \E k \in 1..Len(combos) : combos[k].clipOC = b
    /\ (allowedChannelSpacings = <<>> \/ allowedClipSpacings = <<>>) =>
         combos = <<>>

\* a repeated channel spacing and two clip spacings, one of them 36
C3_Witness ==
  /\ pc = "combos"
  /\ ~constrainToStructure
  /\ Len(allowedChannelSpacings) = 2
  /\ allowedChannelSpacings[1] = allowedChannelSpacings[2]
  /\ Cardinality(Range(allowedClipSpacings)) = 2
  /\ 36 \in Range(allowedClipSpacings)
  /\ Len(combos) = 2

\* C4: with the structure constraint every returned combination has clipOC
\* equal to structureSpacing, whatever allowedClipSpacings holds, and there is
\* exactly one combination per distinct channel spacing.
C4_StructureCollapse ==
  (CombosReturned /\ constrainToStructure) =>
    /\ \A k \in 1..Len(combos) :
         /\ combos[k].clipOC = structureSpacing
         /\ combos[k].channelOC \in Range(allowedChannelSpacings)
    /\ \A a \in Range(allowedChannelSpacings) :
         Cardinality(PositionsOf(a, structureSpacing)) = 1
    /\ Len(combos) = Cardinality(Range(allowedChannelSpacings))

\* an empty clip list and a structure spacing that is no clip option
C4_Witness ==
  /\ pc = "combos"
  /\ constrainToStructure
  /\ allowedClipSpacings = <<>>
  /\ structureSpacing = 16
  /\ Len(combos) = 2

\* the expected pass flag of (a, b) under grid load g, in integer arithmetic:
\* a*b/144 * g is finite and at most CLIP_CAP
ExpectedPass(a, b, g) ==
  isFinite(g) /\ a * b * g[1] <= CLIP_CAP * 144 * g[2]

\* C5: every returned combination (a, b) has tribAreaFt2 = a*b/144,
\* loadPerClip = tribAreaFt2 * gridPsf and pass exactly when loadPerClip is
\* finite and at most 36 (a load equal to 36 passes); with grid load 4.9,
\* channels {16,24} and clips {48}, (16,48) passes, (24,48) fails and the
\* recommendation is (16,48).
C5_ComboFields ==
  /\ CombosReturned =>
       \A k \in 1..Len(combos) :
         LET c == combos[k]
         IN  /\ c.tribAreaFt2[2] > 0
             /\ c.tribAreaFt2[1] * 144 = c.channelOC * c.clipOC * c.tribAreaFt2[2]
             /\ c.loadPerClip = Mul(c.tribAreaFt2, gridPsf)
             /\ c.pass <=> (isFinite(c.loadPerClip) /\ LE(c.loadPerClip, Num(36)))
             /\ c.pass <=> ExpectedPass(c.channelOC, c.clipOC, gridPsf)
             /\ c.loadPerClip = Num(36) => c.pass
  /\ ( /\ pc = "rec"
       /\ gridPsf = Norm(49, 10)
       /\ ~constrainToStructure
       /\ Range(allowedChannelSpacings) = {16, 24}
       /\ Range(allowedClipSpacings) = {48} ) =>
       /\ Len(combos) = 2
       /\ combos[1].channelOC = 24 /\ combos[1].clipOC = 48 /\ ~combos[1].pass
       /\ combos[2].channelOC = 16 /\ combos[2].clipOC = 48 /\ combos[2].pass
       /\ rec = combos[2]

\* a combination loaded to exactly the capacity, next to one that fails
C5_Witness ==
  /\ pc = "rec"
  /\ \E k \in 1..Len(combos) : combos[k].loadPerClip = Num(36) /\ rec = combos[k]
  /\ \E k \in 1..Len(combos) : ~combos[k].pass

\* the combination calcCombos builds for (a, b) when given grid load g
ComboUnder(g, a, b) == MakeCombo(a, b, g, Num(CLIP_CAP))

\* combination c, enumerated under the lower load, against the same
\* combination under the higher load g2
MonotoneIn(c, g2) ==
  LET c2 == ComboUnder(g2, c.channelOC, c.clipOC)
  IN  /\ ~c.pass => ~c2.pass
      /\ ~GT(c2.safety, c.safety)

Rendered == pc = "rendered"

\* cloudWeight / area for a positive area in distributed mode, otherwise 0
ExpectedCloudAvgPsf ==
  IF mountMode = "distributed" /\ area[1] > 0
  THEN Norm((15 * c4x1 + 30 * c4x2 + 45 * c4x3 + 60 * c4x4) * area[2], area[1])
  ELSE Zero

\* C7: the grid load used for enumeration is (includeOSB ? osbPsf : 0) +
\* drywallLayers*drywallPsf + insulPsf + cloudAvgPsf + miscPsf, with total
\* cloud weight 15*c4x1 + 30*c4x2 + 45*c4x3 + 60*c4x4; miscPsf is added once
\* and the board load is left out when includeOSB is false.
C7_GridLoad ==
  Rendered =>
    /\ gridPsf =
         Add(Add(Add(Add(IF includeOSB THEN osbPsf ELSE Zero,
                         Mul(Num(drywallLayers), drywallPsf)),
                     insulPsf),
                 ExpectedCloudAvgPsf),
             miscPsf)
    /\ \A k \in 1..Len(combos) :
         combos[k].loadPerClip = Mul(combos[k].tribAreaFt2, gridPsf)

\* no board layer, a misc load and distributed clouds over a positive area
C7_Witness ==
  /\ Rendered
  /\ ~includeOSB
  /\ GT(miscPsf, Zero)
  /\ mountMode = "distributed"
  /\ GT(area, Zero)
  /\ totalCloudWeight > 0
  /\ combos # <<>>

\* C8: calcCloudAvgPsf is totalCloudWeight / area in distributed mode with
\* area > 0 and 0 otherwise: 0 (never a division by zero, NaN or infinity)
\* for area = 0 or area < 0 in distributed mode, and 0 in dedicated mode.
C8_CloudAvgPsf ==
  Rendered =>
    /\ isFinite(cloudAvgPsf)
    /\ (mountMode = "distributed" /\ area[1] > 0) =>
         cloudAvgPsf[1] * area[1] = totalCloudWeight * area[2] * cloudAvgPsf[2]
    /\ (mountMode = "distributed" /\ area[1] <= 0) => cloudAvgPsf = Zero
    /\ mountMode = "dedicated" => cloudAvgPsf = Zero

\* distributed clouds over a ceiling of area zero
C8_Witness ==
  /\ Rendered
  /\ mountMode = "distributed"
  /\ area = Zero
  /\ totalCloudWeight > 0
  /\ cloudAvgPsf = Zero

\* C9: totalClips = estimatedClipsOnGrid + dedicatedCloudClips, where
\* dedicatedCloudClips is 4 * (c4x1 + c4x2 + c4x3 + c4x4) in dedicated mode
\* and 0 in any other mode.
C9_ClipCounts ==
  Rendered =>
    /\ totalClips = Add(estimatedClipsOnGrid, Num(dedicatedCloudClips))
    /\ mountMode = "dedicated" =>
         dedicatedCloudClips = 4 * c4x1 + 4 * c4x2 + 4 * c4x3 + 4 * c4x4
    /\ mountMode # "dedicated" => dedicatedCloudClips = 0

\* clouds entered in distributed mode, next to a positive grid count
C9_Witness ==
  /\ Rendered
  /\ mountMode = "distributed"
  /\ c4x1 + c4x2 + c4x3 + c4x4 >= 2
  /\ GT(estimatedClipsOnGrid, Zero)
  /\ totalClips = estimatedClipsOnGrid

\* n is the least integer with n * m >= a, for fractions a and m > 0
IsCeilOfQuotient(n, a, m) ==
  /\ n * m[1] * a[2] >= a[1] * m[2]
  /\ (n - 1) * m[1] * a[2] < a[1] * m[2]

\* C10: the grid fastener count is 0 without a recommendation or with
\* area <= 0 and otherwise ceil(area / max(rec.tribAreaFt2, 1e-6)); an empty
\* channel list gives an empty sequence, no recommendation and a count of 0.
C10_GridCount ==
  Rendered =>
    /\ (rec = Null \/ area[1] <= 0) => estimatedClipsOnGrid = Zero
    /\ (rec # Null /\ area[1] > 0) =>
         /\ estimatedClipsOnGrid[2] = 1
         /\ IsCeilOfQuotient(estimatedClipsOnGrid[1], area,
                             IF rec.tribAreaFt2[1] * 1000000 > rec.tribAreaFt2[2]
                             THEN rec.tribAreaFt2 ELSE <<1, 1000000>>)
    /\ allowedChannelSpacings = <<>> =>
         combos = <<>> /\ rec = Null /\ estimatedClipsOnGrid = Zero

\* every channel spacing unchecked on a ceiling of positive area
C10_Witness ==
  /\ Rendered
  /\ nChanges > 0
  /\ allowedChannelSpacings = <<>>
  /\ GT(area, Zero)
  /\ estimatedClipsOnGrid = Zero

\* the four cloud weight classes, in row order
ClassWeights == <<15, 30, 45, 60>>

\* C11: in dedicated mode the dedicated-mount check reports exactly four
\* rows, one per weight class 15, 30, 45 and 60, with load = weight / 4,
\* pass = load <= 36 and safety = 36 / load, whatever the cloud counts and the
\* grid load are; outside dedicated mode it reports no rows.
C11_DedicatedRows ==
  Rendered =>
    /\ mountMode = "dedicated" =>
         /\ Len(dedicatedRows) = 4
         /\ \A i \in 1..4 :
              LET r == dedicatedRows[i]
              IN  /\ isFinite(r.load)
                  /\ r.load[1] * 4 = ClassWeights[i] * r.load[2]
                  /\ r.pass <=> (r.load[1] <= 36 * r.load[2])
                  /\ isFinite(r.safety)
                  /\ r.safety[1] * r.load[1] = 36 * r.load[2] * r.safety[2]
    /\ mountMode # "dedicated" => dedicatedRows = <<>>

\* dedicated mode with every cloud count still zero
C11_Witness ==
  /\ Rendered
  /\ mountMode = "dedicated"
  /\ c4x1 = 0 /\ c4x2 = 0 /\ c4x3 = 0 /\ c4x4 = 0
  /\ Len(dedicatedRows) = 4
  /\ \A i \in 1..4 : dedicatedRows[i].pass

\* the number of combinations calcCombos builds from the spacing arguments
\* alone
ExpectedLength ==
  Cardinality(Range(allowedChannelSpacings))
    * (IF constrainToStructure THEN 1
       ELSE Cardinality(Range(allowedClipSpacings)))

\* C12: a combination whose loadPerClip is not finite is kept in the returned
\* sequence with pass = false, so the length of the sequence does not depend
\* on the grid load, and firstPassing never returns such a combination.
C12_NonFiniteKept ==
  /\ CombosReturned =>
       /\ Len(combos) = ExpectedLength
       /\ \A k \in 1..Len(combos) :
            ~isFinite(combos[k].loadPerClip) => ~combos[k].pass
       /\ ~isFinite(gridPsf) =>
            \A k \in 1..Len(combos) : ~isFinite(combos[k].loadPerClip)
  /\ (pc = "rec" /\ rec # Null) => isFinite(rec.loadPerClip)

\* two combinations under an infinite grid load, neither recommended
C12_Witness ==
  /\ pc = "rec"
  /\ gridPsf = Infinity
  /\ Len(combos) = 2
  /\ \A k \in 1..Len(combos) :
       ~isFinite(combos[k].loadPerClip) /\ ~combos[k].pass
  /\ rec = Null

\* every spacing calcCombos reads is positive
PositiveSpacings ==
  /\ \A a \in Range(allowedChannelSpacings) : a > 0
  /\ IF constrainToStructure THEN structureSpacing > 0
     ELSE \A b \in Range(allowedClipSpacings) : b > 0

PassingIndices == {k \in 1..Len(combos) : combos[k].pass}

\* rec is the passing element of lowest index, or null when none passes
RecIsFirstPassing ==
  pc = "rec" =>
    IF PassingIndices = {} THEN rec = Null
    ELSE /\ rec # Null
         /\ \E k \in PassingIndices :
              /\ rec = combos[k]
              /\ \A j \in 1..(k - 1) : ~combos[j].pass

\* C15: firstPassing, applied to any sequence of combinations, sorted or not,
\* returns the element of lowest index whose pass flag is true, returns null
\* exactly when no element passes (the empty sequence included), and leaves
\* the sequence as it was given.
C15_FirstPassing ==
  /\ []RecIsFirstPassing
  /\ [][pc = "combos" => combos' = combos]_vars

\* a failing element ahead of a passing one of larger product
C15_Witness ==
  /\ pc = "rec"
  /\ Len(combos) = 2
  /\ ~combos[1].pass
  /\ combos[2].pass
  /\ Product(combos[1]) < Product(combos[2])
  /\ rec = combos[2]

\* C16: after any sequence of input changes, once rendering completes, the
\* memoised grid load, combination sequence, recommendation, grid, dedicated
\* and total clip counts and dedicated rows all equal the result of running
\* the pure pipeline on the current inputs: no derived value is stale.
C16_NoStaleMemo ==
  Rendered =>
    LET base == calcBaseAssemblyPsf(assemblyOpts)
        cloud == calcCloudAvgPsf(mountMode, area, Num(totalCloudWeight))
        grid == gridPsfOf(base, cloud, miscPsf)
        list == calcCombos(combosParams(grid, allowedChannelSpacings,
                                        allowedClipSpacings, constrainToStructure,
                                        structureSpacing))
        first == firstPassing(list)
        onGrid == estimatedClipsOnGridOf(first, area)
        dedicated == dedicatedCloudClipsOf(mountMode, c4x1, c4x2, c4x3, c4x4)
    IN  /\ baseAssemblyPsf = base
        /\ cloudAvgPsf = cloud
        /\ gridPsf = grid
        /\ maxAreaPerClip = maxAreaPerClipOf(grid)
        /\ maxSpacingProduct = maxSpacingProductOf(maxAreaPerClipOf(grid))
        /\ combos = list
        /\ rec = first
        /\ estimatedClipsOnGrid = onGrid
        /\ dedicatedCloudClips = dedicated
        /\ totalClips = totalClipsOf(onGrid, dedicated)
        /\ dedicatedRows = dedicatedRowsOf(mountMode)

\* the area changed last while the recommendation stayed the same object:
\* dedicated mode, so the grid load and the combinations were not recomputed
C16_Witness ==
  /\ Rendered
  /\ nChanges >= 2
  /\ mountMode = "dedicated"
  /\ area = Num(100)
  /\ rec # Null
  /\ estimatedClipsOnGrid = estimatedClipsOnGridOf(rec, Num(100))
  /\ estimatedClipsOnGrid # estimatedClipsOnGridOf(rec, Num(400))

\* construction order: ascending channel spacing, then ascending clip spacing
BuiltBefore(c, d) ==
  \/ c.channelOC < d.channelOC
  \/ c.channelOC = d.channelOC /\ c.clipOC < d.clipOC

\* indices of the passing combinations of largest product
WidestPassing ==
  {k \in 1..Len(combos) :
     /\ combos[k].pass
     /\ \A j \in 1..Len(combos) :
          combos[j].pass => Product(combos[j]) <= Product(combos[k])}

\* C17: among combinations of equal spacing product calcCombos keeps
\* construction order (ascending channel spacing, then ascending clip
\* spacing); with channels {12,16,24} and clips {24,32,36,48} the product-576
\* combinations appear as (12,48), (16,36), (24,24); when several passing
\* combinations share the maximum passing product, the recommendation is the
\* one with the smallest channel spacing.
C17_TiesKeepConstructionOrder ==
  Rendered =>
    /\ \A j, k \in 1..Len(combos) :
         (j < k /\ Product(combos[j]) = Product(combos[k]))
           => BuiltBefore(combos[j], combos[k])
    /\ ( /\ allowedChannelSpacings = <<12, 16, 24>>
         /\ allowedClipSpacings = <<24, 32, 36, 48>>
         /\ ~constrainToStructure )
         => \E k \in 1..(Len(combos) - 2) :
              /\ PositionsOf(12, 48) = {k}
              /\ PositionsOf(16, 36) = {k + 1}
              /\ PositionsOf(24, 24) = {k + 2}
              /\ {j \in 1..Len(combos) : Product(combos[j]) = 576} = {k, k + 1, k + 2}
    /\ WidestPassing # {} =>
         /\ rec # Null
         /\ \E k \in WidestPassing :
              /\ rec = combos[k]
              /\ \A j \in WidestPassing : rec.channelOC <= combos[j].channelOC

\* the three product-576 combinations are the widest that pass, and the
\* recommendation is (12, 48)
C17_Witness ==
  /\ Rendered
  /\ nChanges > 0
  /\ Cardinality(WidestPassing) = 3
  /\ rec # Null
  /\ rec.channelOC = 12
  /\ rec.clipOC = 48
  /\ \E k \in WidestPassing : combos[k].channelOC = 24 /\ combos[k].clipOC = 24

\* C18: for every finite grid load and positive spacings, the pass flags of
\* the sequence returned by calcCombos are ordered: no failing combination
\* appears after a passing one, and if a combination passes then every
\* combination with a smaller or equal spacing product also passes.
C18_PassFlagsOrdered ==
  (CombosReturned /\ isFinite(gridPsf) /\ PositiveSpacings) =>
    /\ \A j, k \in 1..Len(combos) :
         (j < k /\ combos[j].pass) => combos[k].pass
    /\ \A j, k \in 1..Len(combos) :
         (combos[j].pass /\ Product(combos[k]) <= Product(combos[j]))
           => combos[k].pass

\* a finite positive load under which the widest combinations fail and the
\* narrower ones pass
C18_Witness ==
  /\ CombosReturned
  /\ isFinite(gridPsf)
  /\ gridPsf[1] > 0
  /\ PositiveSpacings
  /\ Len(combos) >= 4
  /\ ~combos[1].pass
  /\ \E k \in 2..(Len(combos) - 1) : combos[k].pass /\ combos[k + 1].pass

\* the grid load of a run on the current inputs with the four cloud counts
\* replaced by n1, n2, n3, n4
GridLoadWith(n1, n2, n3, n4) ==
  LET weight == (n1 * 15) + (n2 * 30) + (n3 * 45) + (n4 * 60)
  IN  gridPsfOf(calcBaseAssemblyPsf(assemblyOpts),
                calcCloudAvgPsf(mountMode, area, Num(weight)), miscPsf)

\* C19: in dedicated mode the grid load, the enumerated combinations, the
\* recommendation and the grid fastener count are the same for every value
\* of the four cloud counts: of the computed results only dedicatedCloudClips
\* and totalClips vary with the counts.  The grid load of every run equals
\* the rendered one, and the remaining results are computed from that load
\* and the inputs other than the counts.
C19_GridIgnoresDedicatedClouds ==
  (Rendered /\ mountMode = "dedicated") =>
    /\ \A n1, n2, n3, n4 \in 0..MaxClouds :
         GridLoadWith(n1, n2, n3, n4) = gridPsf
    /\ LET grid == GridLoadWith(0, 0, 0, 0)
           list == calcCombos(combosParams(grid, allowedChannelSpacings,
                                           allowedClipSpacings,
                                           constrainToStructure, structureSpacing))
           first == firstPassing(list)
       IN  /\ maxSpacingProduct = maxSpacingProductOf(maxAreaPerClipOf(grid))
           /\ combos = list
           /\ rec = first
           /\ estimatedClipsOnGrid = estimatedClipsOnGridOf(first, area)
           /\ dedicatedRows = dedicatedRowsOf(mountMode)
           /\ totalClips = Add(estimatedClipsOnGridOf(first, area),
                               Num(dedicatedCloudClips))

\* dedicated mode with clouds entered on a ceiling of positive area
C19_Witness ==
  /\ Rendered
  /\ mountMode = "dedicated"
  /\ c4x1 + c4x2 + c4x3 + c4x4 > 0
  /\ GT(area, Zero)
  /\ rec # Null
  /\ dedicatedCloudClips > 0
  /\ GT(totalClips, estimatedClipsOnGrid)

\* the displayed limit as the claim writes it
LimitAsDisplayed == Mul(Div(Num(CLIP_CAP), gridPsf), Num(144))

\* for a positive grid load, pass is the comparison with the displayed limit
LimitAgreesWithPass ==
  GT(gridPsf, Zero) =>
    /\ maxSpacingProduct = LimitAsDisplayed
    /\ \A k \in 1..Len(combos) :
         combos[k].pass <=> LE(Num(Product(combos[k])), maxSpacingProduct)

Counted ==
  /\ pc = "count"
  /\ rec # Null
  /\ area # <<>>
  /\ LE(Norm(1, 1000000), rec.tribAreaFt2)

\* area * d and n * t * d in binary, for the tributary area t as a fraction
\* of denominator d
AreaScaled == BitsMul(area, rec.tribAreaFt2[2])

CoveredScaled == BitsMul(estimatedClipsOnGrid, rec.tribAreaFt2[1])

\* n * tribAreaFt2 >= area and (n - 1) * tribAreaFt2 < area
LeastCovering ==
  /\ BitsCmp(CoveredScaled, AreaScaled) >= 0
  /\ BitsCmp(CoveredScaled, BitsAdd(AreaScaled, BitsOf(rec.tribAreaFt2[1]))) < 0

\* n * tribAreaFt2 >= area * (1 - 2^-53) and
\* (n - 1) * tribAreaFt2 < area * (1 + 2^-53)
CoveringUpToRounding ==
  /\ BitsCmp(BitsAdd(BitsShl(CoveredScaled, DoubleBits), AreaScaled),
             BitsShl(AreaScaled, DoubleBits)) >= 0
  /\ BitsCmp(BitsShl(CoveredScaled, DoubleBits),
             BitsAdd(BitsAdd(BitsShl(AreaScaled, DoubleBits), AreaScaled),
                     BitsShl(BitsOf(rec.tribAreaFt2[1]), DoubleBits))) < 0

\* the double division area / tribAreaFt2 had to round its quotient
QuotientRounded == DoubleDiv(AreaScaled, rec.tribAreaFt2[1]).inexact

\* C21 as stated: whenever a recommendation exists, area > 0 and the
\* recommendation's tributary area is at least 1e-6, the grid fastener count
\* n is at least 1 and is the least integer covering the area:
\* n * tribAreaFt2 >= area and (n - 1) * tribAreaFt2 < area.
C21_LeastCoveringInteger ==
  Counted => (estimatedClipsOnGrid # <<>> /\ LeastCovering)

\* C21, amended: under the same conditions n is at least 1 and covers the
\* area up to the rounding of the double division,
\* n * tribAreaFt2 >= area * (1 - 2^-53) and
\* (n - 1) * tribAreaFt2 < area * (1 + 2^-53), and n is the least covering
\* integer whenever area / tribAreaFt2 is a double, so that the division
\* does not round.
C21_CoveringUpToRounding ==
  Counted =>
    /\ estimatedClipsOnGrid # <<>>
    /\ CoveringUpToRounding
    /\ ~QuotientRounded => LeastCovering

\* a rounded quotient whose count falls short of the area
C21_Witness ==
  /\ Counted
  /\ QuotientRounded
  /\ BitsCmp(CoveredScaled, AreaScaled) < 0
  /\ CoveringUpToRounding

====
